---- MODULE Spec2Model ----
(***************************************************************************)
(* Monte Carlo portfolio sustainability simulator: the rebalance           *)
(* strategies (src/src/rebalance_strategies.py), the monthly path          *)
(* simulator and the batch engine (src/src/simulation.py).                 *)
(*                                                                         *)
(* Numbers.  A Python/NumPy float is modelled as an exact extended         *)
(* rational <<n, d>> in lowest terms with d >= 0: <<n, 1>> is the integer  *)
(* n, <<1, 0>> and <<-1, 0>> are +inf and -inf, <<0, 0>> is NaN (NumPy     *)
(* division by zero yields inf or nan, it does not raise).  Rounding error *)
(* is not modelled, so "equal within floating tolerance" reads "equal".    *)
(*                                                                         *)
(* Returns.  A monthly log-return is an integer k in units of ln 2, so     *)
(* np.exp(k) is exactly 2^k.  Annual means are given in the same unit      *)
(* (mean_monthly = mean_annual / 12), annual standard deviations in units  *)
(* of sqrt(12) ln 2 (std_monthly = std_annual / sqrt(12)).  The standard   *)
(* normal stream of NumPy's global generator is a fixed function of the    *)
(* generator's (seed, position) with values in {-1, 0, 1}.                 *)
(*                                                                         *)
(* Dates are days since datetime(2025, 1, 1).  An optional value (None or  *)
(* x) is the sequence <<>> or <<x>>.                                       *)
(***************************************************************************)
EXTENDS Integers, Sequences, FiniteSets, TLC

VARIABLES
    config,             \* the arguments of the run (read-only once chosen)
    np_random,          \* NumPy's global generator: [seed, pos]
    strategies,         \* the RebalanceStrategy objects constructed so far
    mc,                 \* run_simulation / monte_carlo_simulation frame
    path,               \* simulate_portfolio_path frame
    runs,               \* the metrics tables of the completed full runs
    unit_strategy,      \* the strategy object under unit test (<<>> or <<s>>)
    unit_call           \* the last call made on it and what it returned

vars == <<config, np_random, strategies, mc, path, runs, unit_strategy, unit_call>>

engine_vars == <<config, np_random, strategies, mc, path, runs>>
unit_vars == <<unit_strategy, unit_call>>

-----------------------------------------------------------------------------
(* Bounds of the model *)

MaxMonths == 2          \* horizon n_months
MaxIterations == 2      \* n_iterations
MaxEntropy == 1         \* unseeded generator states are 0..MaxEntropy
MaxCalls == 2           \* unit test: calls made on one strategy object
MaxRows == 3            \* summary: rows of the metrics table summarised

-----------------------------------------------------------------------------
(* Float arithmetic *)

Abs(x) == IF x < 0 THEN -x ELSE x

RECURSIVE Gcd(_, _)
Gcd(a, b) == IF b = 0 THEN a ELSE Gcd(b, a % b)

Norm(n, d) ==
    LET g == Gcd(Abs(n), Abs(d))
    IN  IF g = 0 THEN <<0, 0>>
        ELSE IF d < 0 THEN <<(-n) \div g, (-d) \div g>>
        ELSE <<n \div g, d \div g>>

R(n, d) == Norm(n, d)
Num(n) == <<n, 1>>
Zero == <<0, 1>>
NaN == <<0, 0>>

IsNaN(a) == a = NaN

RNeg(a) == <<-a[1], a[2]>>

\* a + b over the least common denominator
RAdd(a, b) ==
    IF a[2] = 0 /\ b[2] = 0
    THEN (IF a = b THEN a ELSE NaN)
    ELSE IF a[2] = 0 \/ b[2] = 0
    THEN Norm(a[1] * b[2] + b[1] * a[2], 0)
    ELSE LET g == Gcd(a[2], b[2])
         IN  Norm(a[1] * (b[2] \div g) + b[1] * (a[2] \div g), (a[2] \div g) * b[2])

RSub(a, b) == RAdd(a, RNeg(b))

\* a * b, cancelling crosswise before multiplying
RMul(a, b) ==
    LET g1 == Gcd(Abs(a[1]), b[2])
        g2 == Gcd(Abs(b[1]), a[2])
    IN  IF g1 = 0 \/ g2 = 0
        THEN Norm(a[1] * b[1], a[2] * b[2])
        ELSE Norm((a[1] \div g1) * (b[1] \div g2), (a[2] \div g2) * (b[2] \div g1))

RInv(a) == IF a[1] < 0 THEN <<-a[2], -a[1]>> ELSE <<a[2], a[1]>>

RDiv(a, b) == RMul(a, RInv(b))

RAbs(a) == <<Abs(a[1]), a[2]>>

\* Comparisons: any comparison with NaN is false, as in IEEE 754.
RLt(a, b) ==
    /\ ~IsNaN(a)
    /\ ~IsNaN(b)
    /\ IF a[2] = 0 /\ b[2] = 0 THEN a[1] < b[1] ELSE a[1] * b[2] < b[1] * a[2]

RLe(a, b) ==
    /\ ~IsNaN(a)
    /\ ~IsNaN(b)
    /\ IF a[2] = 0 /\ b[2] = 0 THEN a[1] <= b[1] ELSE a[1] * b[2] <= b[1] * a[2]

RGt(a, b) == RLt(b, a)
RGe(a, b) == RLe(b, a)
REq(a, b) == ~IsNaN(a) /\ a = b
RNe(a, b) == ~REq(a, b)

RECURSIVE Pow2(_)
Pow2(k) == IF k = 0 THEN Num(1)
           ELSE IF k > 0 THEN RMul(Num(2), Pow2(k - 1))
           ELSE RMul(R(1, 2), Pow2(k + 1))

\* np.exp on a log-return of k units of ln 2
Exp(k) == Pow2(k)

RECURSIVE RPow(_, _)
RPow(a, n) == IF n = 0 THEN Num(1) ELSE RMul(a, RPow(a, n - 1))

-----------------------------------------------------------------------------
(* Dictionaries keyed by asset: functions on a set of asset names, iterated *)
(* in insertion order, which every dictionary here shares.                  *)

AssetOrder == <<"stocks", "bonds", "cash">>

Keys(d) == SelectSeq(AssetOrder, LAMBDA a : a \in DOMAIN d)

Get(d, a, default) == IF a \in DOMAIN d THEN d[a] ELSE default

RECURSIVE SumSeq(_, _, _)
SumSeq(d, ks, acc) ==
    IF ks = <<>> THEN acc ELSE SumSeq(d, Tail(ks), RAdd(acc, d[Head(ks)]))

\* sum(d.values()), starting from the integer 0
Sum(d) == SumSeq(d, Keys(d), Zero)

\* the elements of a list
SeqToSet(q) == {q[k] : k \in DOMAIN q}

-----------------------------------------------------------------------------
(* rebalance_strategies.py *)

\* the table of frequencies as it would be with a year of twelve 30-day months
FrequencyDays_Annual360(frequency) ==
    CASE frequency = "monthly" -> 30
      [] frequency = "quarterly" -> 90
      [] frequency = "annual" -> 360
      [] OTHER -> 365

\* TimeBasedRebalance.frequency_days.get(frequency, 365)
FrequencyDays(frequency) ==
    CASE frequency = "monthly" -> 30
      [] frequency = "quarterly" -> 90
      [] frequency = "annual" -> 365
      [] OTHER -> 365

\* RebalanceStrategy.__init__ and the two subclasses' __init__
TimeBasedRebalance(target_allocation, frequency, transaction_cost) ==
    [ class |-> "TimeBasedRebalance",
      target_allocation |-> target_allocation,
      transaction_cost |-> transaction_cost,
      last_rebalance_date |-> <<>>,
      frequency |-> frequency,
      threshold |-> Zero ]

ThresholdBasedRebalance(target_allocation, threshold, transaction_cost) ==
    [ class |-> "ThresholdBasedRebalance",
      target_allocation |-> target_allocation,
      transaction_cost |-> transaction_cost,
      last_rebalance_date |-> <<>>,
      frequency |-> "",
      threshold |-> threshold ]

\* should_rebalance as it would be without the first-call branch returning
\* True: the date is recorded and the answer is False
TimeShouldRebalance_FirstCallFalse(self, current_allocation, date, portfolio_value) ==
    IF self.last_rebalance_date = <<>>
    THEN [ result |-> FALSE,
           self |-> [self EXCEPT !.last_rebalance_date = <<date>>] ]
    ELSE LET days_since_rebalance == date - self.last_rebalance_date[1]
         IN  IF days_since_rebalance >= FrequencyDays(self.frequency)
             THEN [ result |-> TRUE,
                    self |-> [self EXCEPT !.last_rebalance_date = <<date>>] ]
             ELSE [ result |-> FALSE, self |-> self ]

\* should_rebalance as it would be with > in place of >= on the elapsed days
TimeShouldRebalance_Strict(self, current_allocation, date, portfolio_value) ==
    IF self.last_rebalance_date = <<>>
    THEN [ result |-> TRUE,
           self |-> [self EXCEPT !.last_rebalance_date = <<date>>] ]
    ELSE LET days_since_rebalance == date - self.last_rebalance_date[1]
         IN  IF days_since_rebalance > FrequencyDays(self.frequency)
             THEN [ result |-> TRUE,
                    self |-> [self EXCEPT !.last_rebalance_date = <<date>>] ]
             ELSE [ result |-> FALSE, self |-> self ]

\* TimeBasedRebalance.should_rebalance: the result and the object afterwards
TimeShouldRebalance(self, current_allocation, date, portfolio_value) ==
    IF self.last_rebalance_date = <<>>
    THEN [ result |-> TRUE,
           self |-> [self EXCEPT !.last_rebalance_date = <<date>>] ]
    ELSE LET days_since_rebalance == date - self.last_rebalance_date[1]
         IN  IF days_since_rebalance >= FrequencyDays(self.frequency)
             THEN [ result |-> TRUE,
                    self |-> [self EXCEPT !.last_rebalance_date = <<date>>] ]
             ELSE [ result |-> FALSE, self |-> self ]

\* ThresholdBasedRebalance.should_rebalance
Deviation(self, current_allocation, asset) ==
    RAbs(RSub(Get(current_allocation, asset, Zero), self.target_allocation[asset]))

\* the comparison as it would be against the factory's default threshold
\* instead of the object's own
ThresholdTriggered_Default(deviation, threshold) == RGt(deviation, R(1, 20))

\* line 154
ThresholdTriggered(deviation, threshold) == RGt(deviation, threshold)

ThresholdShouldRebalance(self, current_allocation, date, portfolio_value) ==
    [ result |-> \E asset \in DOMAIN self.target_allocation :
                    ThresholdTriggered(Deviation(self, current_allocation, asset),
                                       self.threshold),
      self |-> self ]

\* dynamic dispatch on the object's class
should_rebalance(self, current_allocation, date, portfolio_value) ==
    IF self.class = "TimeBasedRebalance"
    THEN TimeShouldRebalance(self, current_allocation, date, portfolio_value)
    ELSE ThresholdShouldRebalance(self, current_allocation, date, portfolio_value)

RECURSIVE TotalChange(_, _, _, _)
TotalChange(target_allocation, current_allocation, ks, acc) ==
    IF ks = <<>> THEN acc
    ELSE LET asset == Head(ks)
             change == RAbs(RSub(target_allocation[asset],
                                 Get(current_allocation, asset, Zero)))
         IN  TotalChange(target_allocation, current_allocation, Tail(ks),
                         RAdd(acc, change))

calculate_rebalance_cost(self, target_allocation, current_allocation, portfolio_value) ==
    LET total_change == TotalChange(target_allocation, current_allocation,
                                    Keys(target_allocation), Zero)
    IN  RMul(RMul(portfolio_value, RDiv(total_change, Num(2))), self.transaction_cost)

\* rebalance as it would be if the cost were not deducted from the values
\* (the first new_values of lines 78-81 returned)
rebalance_CostNotDeducted(self, current_values, portfolio_value) ==
    LET current_allocation ==
            [asset \in DOMAIN current_values |->
                IF RGt(portfolio_value, Zero)
                THEN RDiv(current_values[asset], portfolio_value)
                ELSE Zero]
        cost == calculate_rebalance_cost(self, self.target_allocation,
                                         current_allocation, portfolio_value)
    IN  [ new_values |-> [asset \in DOMAIN self.target_allocation |->
                             RMul(portfolio_value, self.target_allocation[asset])],
          cost |-> cost ]

\* rebalance as it would be if the cost were taken from every holding in
\* proportion and nothing were moved towards the target
rebalance_KeepsWeights(self, current_values, portfolio_value) ==
    LET current_allocation ==
            [asset \in DOMAIN current_values |->
                IF RGt(portfolio_value, Zero)
                THEN RDiv(current_values[asset], portfolio_value)
                ELSE Zero]
        cost == calculate_rebalance_cost(self, self.target_allocation,
                                         current_allocation, portfolio_value)
        remaining_value == RSub(portfolio_value, cost)
    IN  [ new_values |-> [asset \in DOMAIN current_values |->
                             RMul(remaining_value, current_allocation[asset])],
          cost |-> cost ]

\* RebalanceStrategy.rebalance: (new_values, cost)
rebalance(self, current_values, portfolio_value) ==
    LET current_allocation ==
            [asset \in DOMAIN current_values |->
                IF RGt(portfolio_value, Zero)
                THEN RDiv(current_values[asset], portfolio_value)
                ELSE Zero]
        cost == calculate_rebalance_cost(self, self.target_allocation,
                                         current_allocation, portfolio_value)
        remaining_value == RSub(portfolio_value, cost)
    IN  [ new_values |-> [asset \in DOMAIN self.target_allocation |->
                             RMul(remaining_value, self.target_allocation[asset])],
          cost |-> cost ]

\* the factory as it would be if an unknown type fell back to the time-based
\* strategy of default frequency instead of raising
create_rebalance_strategy_Fallback(portfolio_config, transaction_cost) ==
    LET target_allocation == portfolio_config.allocation
        rebalance_config == portfolio_config.rebalance
    IN  IF rebalance_config.type = "threshold"
        THEN [ raised |-> "",
               strategy |-> <<ThresholdBasedRebalance(target_allocation,
                                 Get(rebalance_config, "threshold", R(1, 20)),
                                 transaction_cost)>> ]
        ELSE [ raised |-> "",
               strategy |-> <<TimeBasedRebalance(target_allocation,
                                 Get(rebalance_config, "frequency", "annual"),
                                 transaction_cost)>> ]

\* create_rebalance_strategy: the object, or the ValueError it raises
create_rebalance_strategy(portfolio_config, transaction_cost) ==
    LET target_allocation == portfolio_config.allocation
        rebalance_config == portfolio_config.rebalance
    IN  IF rebalance_config.type = "time"
        THEN [ raised |-> "",
               strategy |-> <<TimeBasedRebalance(target_allocation,
                                 Get(rebalance_config, "frequency", "annual"),
                                 transaction_cost)>> ]
        ELSE IF rebalance_config.type = "threshold"
        THEN [ raised |-> "",
               strategy |-> <<ThresholdBasedRebalance(target_allocation,
                                 Get(rebalance_config, "threshold", R(1, 20)),
                                 transaction_cost)>> ]
        ELSE [ raised |-> "ValueError", strategy |-> <<>> ]

-----------------------------------------------------------------------------
(* simulation.py: generate_monthly_returns *)

\* The standard normal stream of NumPy's global generator: the draw made at
\* position pos after np.random.seed(seed).
StandardNormal(seed, pos) ==
    (((seed + 1) * (pos + 1) + (seed * seed) + (pos \div 2)
        + (seed \div 3) * (pos * pos + 1)) % 3) - 1

\* np.random.normal(mean_monthly, std_monthly, n_months) with the generator
\* in state g: n_months successive draws
NormalDraws(g, mean_monthly, std_monthly, n_months) ==
    [m \in 1..n_months |->
        mean_monthly + std_monthly * StandardNormal(g.seed, g.pos + m - 1)]

\* the sampler as it would be if statistics supplied for cash were used
AnnualProfile_Supplied(asset_stats, asset) == asset_stats[asset]

\* the annual statistics used for an asset; the fixed cash profile (mean
\* 0.02, std 0.001 a year) is below half a unit of the lattice and reads 0
AnnualProfile(asset_stats, asset) ==
    IF asset = "cash"
    THEN [mean_return |-> 0, std_dev |-> 0]
    ELSE asset_stats[asset]

RECURSIVE GenerateColumns(_, _, _, _, _)
GenerateColumns(asset_stats, ks, n_months, g, columns) ==
    IF ks = <<>> THEN [columns |-> columns, np_random |-> g]
    ELSE LET asset == Head(ks)
             stats == AnnualProfile(asset_stats, asset)
             mean_monthly == stats.mean_return \div 12
             std_monthly == stats.std_dev
             log_returns == NormalDraws(g, mean_monthly, std_monthly, n_months)
         IN  GenerateColumns(asset_stats, Tail(ks), n_months,
                             [g EXCEPT !.pos = @ + n_months],
                             columns @@ (asset :> log_returns))

\* generate_monthly_returns: the DataFrame and the generator afterwards.
\* random_seed is <<>> (None) or <<seed>>.
generate_monthly_returns(asset_stats, n_months, random_seed, g) ==
    LET seeded == IF random_seed /= <<>>
                  THEN [seed |-> random_seed[1], pos |-> 0]
                  ELSE g
        made == GenerateColumns(asset_stats, Keys(asset_stats), n_months, seeded, <<>>)
    IN  [ monthly_returns |-> made.columns, np_random |-> made.np_random ]

\* len(monthly_returns): the rows of the DataFrame
Rows(monthly_returns) ==
    IF DOMAIN monthly_returns = {} THEN 0
    ELSE Len(monthly_returns[CHOOSE a \in DOMAIN monthly_returns : TRUE])

-----------------------------------------------------------------------------
(* simulation.py: simulate_portfolio_path, one operator per step of the     *)
(* month loop.  c is the record of the call's arguments, p the frame.       *)

\* the frame as it would start if months_survived were counted up from 0
\* and never set at the end of the loop
InitPath_SurvivedZero(c, monthly_returns) ==
    [ pc |-> "month",
      month |-> 0,
      n_months |-> Rows(monthly_returns),
      monthly_returns |-> monthly_returns,
      portfolio_value |-> c.initial_capital,
      asset_values |-> [asset \in DOMAIN c.portfolio_config.allocation |->
                           RMul(c.initial_capital, c.portfolio_config.allocation[asset])],
      new_asset_values |-> <<>>,
      history |-> <<>>,
      withdrawal |-> c.withdrawal_amount,
      monthly_withdrawal |-> Zero,
      contribution_this_month |-> Zero,
      total_withdrawals |-> Zero,
      total_contributions |-> Zero,
      total_rebalance_costs |-> Zero,
      months_survived |-> 0,
      current_date |-> 0,
      should_rebalance_calls |-> <<>>,
      rebalance_calls |-> <<>> ]

\* lines 129-153
InitPath(c, monthly_returns) ==
    [ pc |-> "month",
      month |-> 0,
      n_months |-> Rows(monthly_returns),
      monthly_returns |-> monthly_returns,
      portfolio_value |-> c.initial_capital,
      asset_values |-> [asset \in DOMAIN c.portfolio_config.allocation |->
                           RMul(c.initial_capital, c.portfolio_config.allocation[asset])],
      new_asset_values |-> <<>>,
      history |-> <<>>,
      withdrawal |-> c.withdrawal_amount,
      monthly_withdrawal |-> Zero,
      contribution_this_month |-> Zero,
      total_withdrawals |-> Zero,
      total_contributions |-> Zero,
      total_rebalance_costs |-> Zero,
      months_survived |-> Rows(monthly_returns),
      current_date |-> 0,
      should_rebalance_calls |-> <<>>,
      rebalance_calls |-> <<>> ]

\* the step as it would be if the base withdrawal were adjusted in month 0
\* as well
StepReturns_InflatesFirstMonth(c, p) ==
    LET withdrawal == IF c.apply_inflation
                      THEN RMul(p.withdrawal, c.inflation_monthly_factor)
                      ELSE p.withdrawal
        new_asset_values ==
            [asset \in DOMAIN p.asset_values |->
                IF asset \in DOMAIN p.monthly_returns
                THEN RMul(p.asset_values[asset],
                          Exp(p.monthly_returns[asset][p.month + 1]))
                ELSE p.asset_values[asset]]
    IN  [p EXCEPT !.pc = "contribution",
                  !.withdrawal = withdrawal,
                  !.new_asset_values = new_asset_values,
                  !.portfolio_value = Sum(new_asset_values)]

\* lines 156-175: inflation adjustment of the base withdrawal, then returns
StepReturns(c, p) ==
    LET withdrawal == IF c.apply_inflation /\ p.month > 0
                      THEN RMul(p.withdrawal, c.inflation_monthly_factor)
                      ELSE p.withdrawal
        new_asset_values ==
            [asset \in DOMAIN p.asset_values |->
                IF asset \in DOMAIN p.monthly_returns
                THEN RMul(p.asset_values[asset],
                          Exp(p.monthly_returns[asset][p.month + 1]))
                ELSE p.asset_values[asset]]
    IN  [p EXCEPT !.pc = "contribution",
                  !.withdrawal = withdrawal,
                  !.new_asset_values = new_asset_values,
                  !.portfolio_value = Sum(new_asset_values)]

\* lines 177-189
StepContribution(c, p) ==
    LET contribution_this_month ==
            IF c.contribution_enabled THEN c.periodic_contribution ELSE Zero
        applies == c.contribution_enabled /\ RNe(contribution_this_month, Zero)
        portfolio_value == RAdd(p.portfolio_value, contribution_this_month)
    IN  IF ~applies
        THEN [p EXCEPT !.pc = "withdrawal",
                       !.contribution_this_month = contribution_this_month]
        ELSE [p EXCEPT
                !.pc = "withdrawal",
                !.contribution_this_month = contribution_this_month,
                !.portfolio_value = portfolio_value,
                !.total_contributions = RAdd(@, contribution_this_month),
                !.new_asset_values =
                    IF RGt(portfolio_value, Zero)
                    THEN [asset \in DOMAIN @ |->
                            RMul(RDiv(@[asset],
                                      RSub(portfolio_value, contribution_this_month)),
                                 portfolio_value)]
                    ELSE @]

\* lines 191-201: the month's total withdrawal
MonthlyWithdrawal(c, p) ==
    IF c.thirteenth_payment_enabled /\ (p.month + 1) \in c.thirteenth_payment_months
    THEN LET thirteenth_amount ==
                IF c.apply_inflation /\ p.month > 0
                THEN RMul(c.thirteenth_payment_amount,
                          RPow(c.inflation_monthly_factor, p.month + 1))
                ELSE c.thirteenth_payment_amount
         IN  RAdd(p.withdrawal, thirteenth_amount)
    ELSE p.withdrawal

\* the ruin check as it would be with > in place of >=
CanWithdraw_Strict(portfolio_value, monthly_withdrawal) ==
    RGt(portfolio_value, monthly_withdrawal)

\* line 204: whether the month's withdrawal can be paid
CanWithdraw(portfolio_value, monthly_withdrawal) ==
    RGe(portfolio_value, monthly_withdrawal)

\* the withdrawal step as it would be if the month of the ruin were counted
\* as survived
StepWithdrawal_CountsRuinMonth(c, p) ==
    LET monthly_withdrawal == MonthlyWithdrawal(c, p)
    IN  IF CanWithdraw(p.portfolio_value, monthly_withdrawal)
        THEN LET portfolio_value == RSub(p.portfolio_value, monthly_withdrawal)
                 keep == RSub(Num(1), RDiv(monthly_withdrawal,
                                           RAdd(portfolio_value, monthly_withdrawal)))
             IN  [p EXCEPT
                    !.pc = "rebalance",
                    !.monthly_withdrawal = monthly_withdrawal,
                    !.portfolio_value = portfolio_value,
                    !.total_withdrawals = RAdd(@, monthly_withdrawal),
                    !.new_asset_values = [asset \in DOMAIN @ |-> RMul(@[asset], keep)]]
        ELSE [p EXCEPT
                !.pc = "break",
                !.monthly_withdrawal = monthly_withdrawal,
                !.months_survived = p.month + 1,
                !.portfolio_value = Zero,
                !.new_asset_values = [asset \in DOMAIN @ |-> Zero]]

\* the withdrawal step as it would be if the withdrawal that could not be
\* paid were added to the total all the same
StepWithdrawal_AddsUnpaid(c, p) ==
    LET monthly_withdrawal == MonthlyWithdrawal(c, p)
    IN  IF CanWithdraw(p.portfolio_value, monthly_withdrawal)
        THEN LET portfolio_value == RSub(p.portfolio_value, monthly_withdrawal)
                 keep == RSub(Num(1), RDiv(monthly_withdrawal,
                                           RAdd(portfolio_value, monthly_withdrawal)))
             IN  [p EXCEPT
                    !.pc = "rebalance",
                    !.monthly_withdrawal = monthly_withdrawal,
                    !.portfolio_value = portfolio_value,
                    !.total_withdrawals = RAdd(@, monthly_withdrawal),
                    !.new_asset_values = [asset \in DOMAIN @ |-> RMul(@[asset], keep)]]
        ELSE [p EXCEPT
                !.pc = "break",
                !.monthly_withdrawal = monthly_withdrawal,
                !.months_survived = p.month,
                !.portfolio_value = Zero,
                !.total_withdrawals = RAdd(@, monthly_withdrawal),
                !.new_asset_values = [asset \in DOMAIN @ |-> Zero]]

\* lines 203-215
StepWithdrawal(c, p) ==
    LET monthly_withdrawal == MonthlyWithdrawal(c, p)
    IN  IF CanWithdraw(p.portfolio_value, monthly_withdrawal)
        THEN LET portfolio_value == RSub(p.portfolio_value, monthly_withdrawal)
                 keep == RSub(Num(1), RDiv(monthly_withdrawal,
                                           RAdd(portfolio_value, monthly_withdrawal)))
             IN  [p EXCEPT
                    !.pc = "rebalance",
                    !.monthly_withdrawal = monthly_withdrawal,
                    !.portfolio_value = portfolio_value,
                    !.total_withdrawals = RAdd(@, monthly_withdrawal),
                    !.new_asset_values = [asset \in DOMAIN @ |-> RMul(@[asset], keep)]]
        ELSE [p EXCEPT
                !.pc = "break",
                !.monthly_withdrawal = monthly_withdrawal,
                !.months_survived = p.month,
                !.portfolio_value = Zero,
                !.new_asset_values = [asset \in DOMAIN @ |-> Zero]]

\* the rebalance check as it would be if it were made before the month's
\* returns and flows: on the weights of the values the month started with
StepRebalance_StartOfMonthWeights(c, p, strategy) ==
    LET start_value == Sum(p.asset_values)
        current_allocation ==
            [asset \in DOMAIN p.asset_values |->
                IF RGt(start_value, Zero)
                THEN RDiv(p.asset_values[asset], start_value)
                ELSE Zero]
        asked == should_rebalance(strategy, current_allocation, p.current_date,
                                  p.portfolio_value)
        done == rebalance(asked.self, p.new_asset_values, p.portfolio_value)
        called == [p EXCEPT !.pc = "record",
                            !.should_rebalance_calls = Append(@, p.month)]
    IN  [ strategy |-> asked.self,
          path |-> IF asked.result
                   THEN [called EXCEPT
                            !.new_asset_values = done.new_values,
                            !.portfolio_value = RSub(@, done.cost),
                            !.total_rebalance_costs = RAdd(@, done.cost),
                            !.rebalance_calls = Append(@, p.month)]
                   ELSE called ]

\* lines 217-229: the frame and the strategy object afterwards
StepRebalance(c, p, strategy) ==
    LET current_allocation ==
            [asset \in DOMAIN p.new_asset_values |->
                IF RGt(p.portfolio_value, Zero)
                THEN RDiv(p.new_asset_values[asset], p.portfolio_value)
                ELSE Zero]
        asked == should_rebalance(strategy, current_allocation, p.current_date,
                                  p.portfolio_value)
        done == rebalance(asked.self, p.new_asset_values, p.portfolio_value)
        called == [p EXCEPT !.pc = "record",
                            !.should_rebalance_calls = Append(@, p.month)]
    IN  [ strategy |-> asked.self,
          path |-> IF asked.result
                   THEN [called EXCEPT
                            !.new_asset_values = done.new_values,
                            !.portfolio_value = RSub(@, done.cost),
                            !.total_rebalance_costs = RAdd(@, done.cost),
                            !.rebalance_calls = Append(@, p.month)]
                   ELSE called ]

\* the snapshot as it would be if it carried the loop index, counted from 0
StepRecord_ZeroIndexed(c, p) ==
    [p EXCEPT
        !.pc = "month",
        !.asset_values = p.new_asset_values,
        !.history = Append(@,
            [ month |-> p.month,
              portfolio_value |-> p.portfolio_value,
              withdrawal |-> p.monthly_withdrawal,
              base_withdrawal |-> p.withdrawal,
              contribution |-> p.contribution_this_month,
              total_withdrawals |-> p.total_withdrawals,
              total_contributions |-> p.total_contributions,
              total_rebalance_costs |-> p.total_rebalance_costs,
              asset_values |-> [asset \in DOMAIN c.portfolio_config.allocation |->
                                   Get(p.new_asset_values, asset, Zero)] ]),
        !.current_date = @ + 30,
        !.month = @ + 1]

\* lines 231-248, and the loop's increment
StepRecord(c, p) ==
    [p EXCEPT
        !.pc = "month",
        !.asset_values = p.new_asset_values,
        !.history = Append(@,
            [ month |-> p.month + 1,
              portfolio_value |-> p.portfolio_value,
              withdrawal |-> p.monthly_withdrawal,
              base_withdrawal |-> p.withdrawal,
              contribution |-> p.contribution_this_month,
              total_withdrawals |-> p.total_withdrawals,
              total_contributions |-> p.total_contributions,
              total_rebalance_costs |-> p.total_rebalance_costs,
              asset_values |-> [asset \in DOMAIN c.portfolio_config.allocation |->
                                   Get(p.new_asset_values, asset, Zero)] ]),
        !.current_date = @ + 30,
        !.month = @ + 1]

\* the end of the loop as it would be if the ruin branch did not leave it
LoopOver_IgnoresBreak(p) == p.pc = "month" /\ p.month >= p.n_months

\* the loop is over: range(n_months) exhausted, or break
LoopOver(p) == p.pc = "break" \/ (p.pc = "month" /\ p.month >= p.n_months)

\* the metrics as they would be if survival were read off the final value
Metrics_SurvivedIfValueLeft(c, p) ==
    [ final_value |-> p.portfolio_value,
      total_withdrawals |-> p.total_withdrawals,
      total_contributions |-> p.total_contributions,
      net_flow |-> RSub(p.total_contributions, p.total_withdrawals),
      total_rebalance_costs |-> p.total_rebalance_costs,
      months_survived |-> p.months_survived,
      survived_full_period |-> RGt(p.portfolio_value, Zero),
      total_return |-> IF RGt(c.initial_capital, Zero)
                       THEN RDiv(RSub(p.portfolio_value, c.initial_capital),
                                 c.initial_capital)
                       ELSE Zero ]

\* lines 250-261
Metrics(c, p) ==
    [ final_value |-> p.portfolio_value,
      total_withdrawals |-> p.total_withdrawals,
      total_contributions |-> p.total_contributions,
      net_flow |-> RSub(p.total_contributions, p.total_withdrawals),
      total_rebalance_costs |-> p.total_rebalance_costs,
      months_survived |-> p.months_survived,
      survived_full_period |-> (p.months_survived = p.n_months),
      total_return |-> IF RGt(c.initial_capital, Zero)
                       THEN RDiv(RSub(p.portfolio_value, c.initial_capital),
                                 c.initial_capital)
                       ELSE Zero ]

-----------------------------------------------------------------------------
(* The runs explored: the arguments run_simulation reads from the           *)
(* configuration file and the asset statistics file.                        *)

Allocations == { [stocks |-> R(3, 4), bonds |-> R(1, 4)] }

RebalanceConfigs ==
    { [type |-> "time", frequency |-> "monthly"],
      [type |-> "time", frequency |-> "quarterly"],
      [type |-> "threshold", threshold |-> R(1, 8)],
      [type |-> "momentum"],
      [type |-> "Time", frequency |-> "monthly"] }

AssetStatistics ==
    { [stocks |-> [mean_return |-> 0, std_dev |-> 1],
       bonds |-> [mean_return |-> 0, std_dev |-> 0]],
      [stocks |-> [mean_return |-> 0, std_dev |-> 0],
       bonds |-> [mean_return |-> 0, std_dev |-> 0]],
      [stocks |-> [mean_return |-> 0, std_dev |-> 1]] }

\* a contribution amount is read only when contributions are enabled: the
\* disabled configurations are listed once
Configs ==
    { c \in
    [ initial_capital : {Num(64)},
      asset_stats : AssetStatistics,
      portfolio_config : [allocation : Allocations, rebalance : RebalanceConfigs],
      transaction_cost : {Zero, R(1, 8)},
      n_months : {MaxMonths},
      n_iterations : {0, MaxIterations},
      withdrawal_amount : {Zero, Num(16)},
      inflation_monthly_factor : {R(3, 2)},
      apply_inflation : BOOLEAN,
      periodic_contribution : {Num(-32), Num(16)},
      contribution_enabled : BOOLEAN,
      thirteenth_payment_months : {{1}},
      thirteenth_payment_amount : {Num(64)},
      thirteenth_payment_enabled : BOOLEAN,
      random_seed : {<<>>, <<0>>, <<1>>} ] :
      c.contribution_enabled \/ c.periodic_contribution = Num(16) }

NoConfig == <<>>
NoPath == [pc |-> "none"]
NoCall == [op |-> "none"]
IdleEngine == [pc |-> "idle"]

-----------------------------------------------------------------------------
(* simulation.py: run_simulation and monte_carlo_simulation *)

\* `if random_seed`: None and 0 are both falsy
Truthy(random_seed) == random_seed /= <<>> /\ random_seed[1] /= 0

\* line 309: random_seed + i if random_seed else None
IterationSeed(random_seed, i) ==
    IF Truthy(random_seed) THEN <<random_seed[1] + i>> ELSE <<>>

\* lines 294-297: asset_stats as the loop uses it
WithCash(allocation, asset_stats) ==
    IF /\ "cash" \in DOMAIN allocation
       /\ RGt(allocation["cash"], Zero)
       /\ "cash" \notin DOMAIN asset_stats
    THEN asset_stats @@ ("cash" :> [mean_return |-> 0, std_dev |-> 0])
    ELSE asset_stats

\* the strategy object the engine hands to an iteration's path: the one
\* reference it was given (line 317)
StrategyForIteration(frame, i) == frame.rebalance_strategy

Init ==
    /\ config \in Configs
    /\ np_random = [seed |-> 0, pos |-> 0]
    /\ strategies = <<>>
    /\ mc = [pc |-> "start"]
    /\ path = NoPath
    /\ runs = <<>>
    /\ unit_strategy = <<>>
    /\ unit_call = NoCall

\* run_simulation, lines 387-399, in a fresh interpreter: the generator
\* starts in a state the program does not choose
RunSimulation ==
    /\ mc.pc = "start"
    /\ LET made == create_rebalance_strategy(config.portfolio_config,
                                             config.transaction_cost)
       IN  IF made.raised /= ""
           THEN /\ mc' = [pc |-> "raised", error |-> made.raised]
                /\ UNCHANGED <<strategies, np_random>>
           ELSE /\ strategies' = Append(strategies, made.strategy[1])
                /\ \E e \in 0..MaxEntropy : np_random' = [seed |-> e, pos |-> 0]
                /\ mc' = [ pc |-> "loop",
                           i |-> 0,
                           rebalance_strategy |-> Len(strategies) + 1,
                           asset_stats |-> WithCash(config.portfolio_config.allocation,
                                                    config.asset_stats),
                           all_metrics |-> <<>>,
                           seed_passed |-> <<>>,
                           strategy_used |-> <<>> ]
    /\ UNCHANGED <<config, path, runs, unit_vars>>

\* the loop as it would be with one iteration too many
LoopContinues_Inclusive(i, n_iterations) == i <= n_iterations

\* line 301: for i in range(n_iterations)
LoopContinues(i, n_iterations) == i < n_iterations

\* monte_carlo_simulation, lines 301-327: the returns of iteration i are
\* generated and simulate_portfolio_path is entered
StartIteration ==
    /\ mc.pc = "loop"
    /\ LoopContinues(mc.i, config.n_iterations)
    /\ LET made == generate_monthly_returns(mc.asset_stats, config.n_months,
                        IterationSeed(config.random_seed, mc.i), np_random)
       IN  /\ np_random' = made.np_random
           /\ path' = InitPath(config, made.monthly_returns)
           /\ mc' = [mc EXCEPT !.pc = "path",
                               !.seed_passed = IterationSeed(config.random_seed, mc.i),
                               !.strategy_used = Append(@, StrategyForIteration(mc, mc.i))]
    /\ UNCHANGED <<config, strategies, runs, unit_vars>>

InPath(pc) == mc.pc = "path" /\ path.pc = pc

PathReturns ==
    /\ InPath("month")
    /\ path.month < path.n_months
    /\ path' = StepReturns(config, path)
    /\ UNCHANGED <<config, np_random, strategies, mc, runs, unit_vars>>

PathContribution ==
    /\ InPath("contribution")
    /\ path' = StepContribution(config, path)
    /\ UNCHANGED <<config, np_random, strategies, mc, runs, unit_vars>>

PathWithdrawal ==
    /\ InPath("withdrawal")
    /\ path' = StepWithdrawal(config, path)
    /\ UNCHANGED <<config, np_random, strategies, mc, runs, unit_vars>>

PathRebalance ==
    /\ InPath("rebalance")
    /\ LET ref == mc.strategy_used[Len(mc.strategy_used)]
           step == StepRebalance(config, path, strategies[ref])
       IN  /\ path' = step.path
           /\ strategies' = [strategies EXCEPT ![ref] = step.strategy]
    /\ UNCHANGED <<config, np_random, mc, runs, unit_vars>>

PathRecord ==
    /\ InPath("record")
    /\ path' = StepRecord(config, path)
    /\ UNCHANGED <<config, np_random, strategies, mc, runs, unit_vars>>

\* simulate_portfolio_path returns (lines 250-263) and the engine collects
\* the metrics (lines 329-331)
PathReturn ==
    /\ mc.pc = "path"
    /\ LoopOver(path)
    /\ path' = [path EXCEPT !.pc = "returned"]
    /\ mc' = [mc EXCEPT !.pc = "loop",
                        !.i = @ + 1,
                        !.all_metrics = Append(@, Metrics(config, path))]
    /\ UNCHANGED <<config, np_random, strategies, runs, unit_vars>>

\* monte_carlo_simulation returns metrics_df (lines 333-335); a second full
\* run of the same configuration follows the first
MonteCarloReturn ==
    /\ mc.pc = "loop"
    /\ ~LoopContinues(mc.i, config.n_iterations)
    /\ runs' = Append(runs, mc.all_metrics)
    /\ mc' = IF Len(runs) + 1 < 2
             THEN [pc |-> "start"]
             ELSE [mc EXCEPT !.pc = "done"]
    /\ UNCHANGED <<config, np_random, strategies, path, unit_vars>>

Next ==
    \/ RunSimulation
    \/ StartIteration
    \/ PathReturns
    \/ PathContribution
    \/ PathWithdrawal
    \/ PathRebalance
    \/ PathRecord
    \/ PathReturn
    \/ MonteCarloReturn

Spec == Init /\ [][Next]_vars

-----------------------------------------------------------------------------
(* simulate_portfolio_path as one call: the loop run to its end on a frame   *)
(* and a strategy object of its own.                                        *)

RECURSIVE RunLoop(_, _, _)
RunLoop(c, p, strategy) ==
    IF LoopOver(p) THEN p
    ELSE IF p.pc = "month" THEN RunLoop(c, StepReturns(c, p), strategy)
    ELSE IF p.pc = "contribution" THEN RunLoop(c, StepContribution(c, p), strategy)
    ELSE IF p.pc = "withdrawal" THEN RunLoop(c, StepWithdrawal(c, p), strategy)
    ELSE IF p.pc = "rebalance"
    THEN LET step == StepRebalance(c, p, strategy)
         IN  RunLoop(c, step.path, step.strategy)
    ELSE RunLoop(c, StepRecord(c, p), strategy)

simulate_portfolio_path(c, strategy, monthly_returns) ==
    Metrics(c, RunLoop(c, InitPath(c, monthly_returns), strategy))

-----------------------------------------------------------------------------
(* Unit tests of the strategies (tests/test_rebalance.py,                   *)
(* tests/test_simulation.py): a strategy object is constructed and its      *)
(* methods are called with arbitrary arguments.                             *)

UnitAllocations ==
    { [stocks |-> R(1, 2), bonds |-> R(1, 2)],
      [stocks |-> R(3, 4), bonds |-> R(1, 4)] }

UnitRebalanceConfigs ==
    { [type |-> "time", frequency |-> "monthly"],
      [type |-> "time", frequency |-> "quarterly"],
      [type |-> "time", frequency |-> "annual"],
      [type |-> "time", frequency |-> "weekly"],
      [type |-> "time"],
      [type |-> "threshold", threshold |-> R(1, 4)],
      [type |-> "threshold", threshold |-> R(1, 8)],
      [type |-> "threshold"],
      [type |-> "momentum"] }

UnitCosts == {Zero, R(1, 512)}

UnitWeights ==
    { [stocks |-> R(1, 2), bonds |-> R(1, 2)],
      [stocks |-> R(3, 4), bonds |-> R(1, 4)],
      [stocks |-> R(5, 8), bonds |-> R(3, 8)],
      [stocks |-> Num(1)] }

UnitDates == {0, 1, 29, 30, 31, 89, 90, 91, 364, 365, 366}

UnitValues == {Num(-64), Zero, Num(64), Num(4096)}

UnitHoldings ==
    { [stocks |-> Num(48), bonds |-> Num(16)],
      [stocks |-> Num(32), bonds |-> Num(32)],
      [stocks |-> Num(3072), bonds |-> Num(1024)],
      [stocks |-> Zero, bonds |-> Zero],
      [stocks |-> Num(64)],
      [stocks |-> Num(32), cash |-> Num(32)] }

UnitInit ==
    /\ config = NoConfig
    /\ np_random = [seed |-> 0, pos |-> 0]
    /\ strategies = <<>>
    /\ mc = IdleEngine
    /\ path = NoPath
    /\ runs = <<>>
    /\ unit_strategy = <<>>
    /\ unit_call = NoCall

UnitCreate ==
    /\ unit_call.op = "none"
    /\ \E allocation \in UnitAllocations, rebalance_config \in UnitRebalanceConfigs,
          transaction_cost \in UnitCosts :
          LET made == create_rebalance_strategy(
                          [allocation |-> allocation, rebalance |-> rebalance_config],
                          transaction_cost)
          IN  /\ unit_strategy' = made.strategy
              /\ unit_call' = [op |-> "create", raised |-> made.raised,
                               calls |-> 0, asked |-> 0]
    /\ UNCHANGED engine_vars

UnitShouldRebalance ==
    /\ unit_strategy /= <<>>
    /\ unit_call.calls < MaxCalls
    /\ \E current_allocation \in UnitWeights, date \in UnitDates,
          portfolio_value \in IF unit_call.asked = 0 THEN {Zero, Num(4096)}
                              ELSE {Num(4096)} :
          LET asked == should_rebalance(unit_strategy[1], current_allocation, date,
                                        portfolio_value)
          IN  /\ unit_strategy' = <<asked.self>>
              /\ unit_call' = [ op |-> "should_rebalance",
                                calls |-> unit_call.calls + 1,
                                asked |-> unit_call.asked + 1,
                                before |-> unit_strategy[1],
                                current_allocation |-> current_allocation,
                                date |-> date,
                                portfolio_value |-> portfolio_value,
                                result |-> asked.result ]
    /\ UNCHANGED engine_vars

UnitRebalance ==
    /\ unit_strategy /= <<>>
    /\ unit_call.calls < MaxCalls
    /\ \E current_values \in UnitHoldings, portfolio_value \in UnitValues :
          LET done == rebalance(unit_strategy[1], current_values, portfolio_value)
          IN  /\ unit_strategy' = unit_strategy
              /\ unit_call' = [ op |-> "rebalance",
                                calls |-> unit_call.calls + 1,
                                asked |-> unit_call.asked,
                                before |-> unit_strategy[1],
                                current_values |-> current_values,
                                portfolio_value |-> portfolio_value,
                                new_values |-> done.new_values,
                                cost |-> done.cost ]
    /\ UNCHANGED engine_vars

UnitNext ==
    \/ UnitCreate
    \/ UnitShouldRebalance
    \/ UnitRebalance

SpecUnit == UnitInit /\ [][UnitNext]_vars

-----------------------------------------------------------------------------
(* simulate_portfolio_path called on its own, as a test of the arithmetic   *)
(* does: a table of zero returns over a long horizon, one strategy object   *)
(* made for the call.                                                       *)

\* a DataFrame of n_months rows of zero log-returns, one column per asset
ZeroReturns(allocation, n_months) ==
    [asset \in DOMAIN allocation |-> [m \in 1..n_months |-> 0]]

\* the rebalance configurations of the calls
PathRebalanceConfigs ==
    { [type |-> "time", frequency |-> "monthly"],
      [type |-> "time", frequency |-> "quarterly"],
      [type |-> "time", frequency |-> "annual"],
      [type |-> "time", frequency |-> "weekly"],
      [type |-> "threshold", threshold |-> R(1, 8)] }

\* a call without inflation adjustment, contribution, extra withdrawal and
\* transaction cost
PlainCall(c) ==
    /\ ~c.apply_inflation
    /\ ~c.contribution_enabled
    /\ ~c.thirteenth_payment_enabled
    /\ c.transaction_cost = Zero

\* the calls explored: every flow on the annual and the threshold strategy,
\* the other frequencies on plain calls; inflation on the shortest horizon;
\* an amount that is switched off is listed once
PathConfigs ==
    { c \in
    [ initial_capital : {Num(64), Num(100), Num(100000)},
      asset_stats : {[stocks |-> [mean_return |-> 0, std_dev |-> 0],
                      bonds |-> [mean_return |-> 0, std_dev |-> 0]]},
      portfolio_config : [allocation : {[stocks |-> R(3, 5), bonds |-> R(2, 5)]},
                          rebalance : PathRebalanceConfigs],
      transaction_cost : {Zero, R(1, 8)},
      n_months : {4, 12, 60},
      n_iterations : {1},
      withdrawal_amount : {Zero, Num(16), Num(2000)},
      inflation_monthly_factor : {R(3, 2)},
      apply_inflation : BOOLEAN,
      periodic_contribution : {Num(-32), Num(16)},
      contribution_enabled : BOOLEAN,
      thirteenth_payment_months : {{1}, {3}},
      thirteenth_payment_amount : {Num(64)},
      thirteenth_payment_enabled : BOOLEAN,
      random_seed : {<<>>} ] :
      /\ c.apply_inflation => c.n_months = 4
      /\ c.transaction_cost /= Zero => c.initial_capital = Num(64)
      /\ c.contribution_enabled \/ c.periodic_contribution = Num(16)
      /\ c.thirteenth_payment_enabled \/ c.thirteenth_payment_months = {1}
      /\ \/ c.portfolio_config.rebalance \in
               {[type |-> "time", frequency |-> "annual"],
                [type |-> "threshold", threshold |-> R(1, 8)]}
         \/ PlainCall(c) }

\* the call is entered: the strategy object exists, the frame is initialised
PathInit ==
    /\ config \in PathConfigs
    /\ np_random = [seed |-> 0, pos |-> 0]
    /\ strategies = <<create_rebalance_strategy(config.portfolio_config,
                                                config.transaction_cost).strategy[1]>>
    /\ mc = [ pc |-> "path",
              i |-> 0,
              rebalance_strategy |-> 1,
              asset_stats |-> config.asset_stats,
              all_metrics |-> <<>>,
              seed_passed |-> <<>>,
              strategy_used |-> <<1>> ]
    /\ path = InitPath(config, ZeroReturns(config.portfolio_config.allocation,
                                           config.n_months))
    /\ runs = <<>>
    /\ unit_strategy = <<>>
    /\ unit_call = NoCall

PathNext ==
    \/ PathReturns
    \/ PathContribution
    \/ PathWithdrawal
    \/ PathRebalance
    \/ PathRecord
    \/ PathReturn

SpecPath == PathInit /\ [][PathNext]_vars

\* simulate_portfolio_path has a statement to execute: a phase of a month,
\* the head of the loop, or the return (the guards of the actions of
\* PathNext; every one of them changes path.pc, so this is
\* ENABLED <<PathNext>>_vars)
PathRunning ==
    /\ mc.pc = "path"
    /\ \/ path.pc = "month" /\ path.month < path.n_months
       \/ path.pc \in {"contribution", "withdrawal", "rebalance", "record"}
       \/ LoopOver(path)

\* the call runs on: the interpreter executes the next statement of the
\* function whenever there is one. This is weak fairness of PathNext, with
\* its enabling condition written out as PathRunning
PathFairness == []<>(~PathRunning) \/ []<><<PathNext>>_vars

SpecPathFair == PathInit /\ [][PathNext]_vars /\ PathFairness

-----------------------------------------------------------------------------
(* sensitivity_analysis.py: calculate_summary_statistics, called on a       *)
(* metrics table as monte_carlo_simulation returns it.                      *)

\* a column of the table, booleans read as 1 and 0
Column(metrics_df, name) ==
    [k \in DOMAIN metrics_df |->
        IF name = "survived_full_period"
        THEN (IF metrics_df[k].survived_full_period THEN Num(1) ELSE Zero)
        ELSE IF name = "months_survived" THEN Num(metrics_df[k].months_survived)
        ELSE metrics_df[k][name]]

\* Series.mean(): the sum over the count, nan for an empty column
Mean(column) ==
    RDiv(SumSeq(column, [k \in DOMAIN column |-> k], Zero), Num(Len(column)))

\* Series.min() and Series.max(): nan for an empty column
ColumnMin(column) ==
    IF column = <<>> THEN NaN
    ELSE CHOOSE x \in SeqToSet(column) : \A y \in SeqToSet(column) : RLe(x, y)

ColumnMax(column) ==
    IF column = <<>> THEN NaN
    ELSE CHOOSE x \in SeqToSet(column) : \A y \in SeqToSet(column) : RGe(x, y)

\* the survival rate as it would be if the mean were returned as a fraction
SurvivalRate_Fraction(metrics_df) ==
    Mean(Column(metrics_df, "survived_full_period"))

\* line 94
SurvivalRate(metrics_df) ==
    RMul(Mean(Column(metrics_df, "survived_full_period")), Num(100))

\* lines 93-114; the median, the percentiles and the standard deviation of
\* final_value are further entries computed from the same column
calculate_summary_statistics(metrics_df) ==
    [ survival_rate |-> SurvivalRate(metrics_df),
      mean_final_value |-> Mean(Column(metrics_df, "final_value")),
      min_final_value |-> ColumnMin(Column(metrics_df, "final_value")),
      max_final_value |-> ColumnMax(Column(metrics_df, "final_value")),
      mean_months_survived |-> Mean(Column(metrics_df, "months_survived")),
      mean_total_withdrawals |-> Mean(Column(metrics_df, "total_withdrawals")),
      mean_total_rebalance_costs |-> Mean(Column(metrics_df, "total_rebalance_costs")),
      mean_total_return |-> RMul(Mean(Column(metrics_df, "total_return")), Num(100)),
      mean_total_contributions |-> Mean(Column(metrics_df, "total_contributions")),
      mean_net_flow |-> Mean(Column(metrics_df, "net_flow")) ]

\* rows of a table for a horizon of 2 months and a capital of 64: a path
\* that kept its capital, one that ended the horizon with nothing, and
\* paths ruined in month 0 and in month 1
SummaryRows ==
    { [ final_value |-> Num(64), total_withdrawals |-> Zero,
        total_contributions |-> Zero, net_flow |-> Zero,
        total_rebalance_costs |-> Zero, months_survived |-> 2,
        survived_full_period |-> TRUE, total_return |-> Zero ],
      [ final_value |-> Zero, total_withdrawals |-> Num(64),
        total_contributions |-> Zero, net_flow |-> Num(-64),
        total_rebalance_costs |-> Zero, months_survived |-> 2,
        survived_full_period |-> TRUE, total_return |-> Num(-1) ],
      [ final_value |-> Zero, total_withdrawals |-> Zero,
        total_contributions |-> Zero, net_flow |-> Zero,
        total_rebalance_costs |-> Zero, months_survived |-> 0,
        survived_full_period |-> FALSE, total_return |-> Num(-1) ],
      [ final_value |-> Zero, total_withdrawals |-> Num(48),
        total_contributions |-> Zero, net_flow |-> Num(-48),
        total_rebalance_costs |-> Zero, months_survived |-> 1,
        survived_full_period |-> FALSE, total_return |-> Num(-1) ] }

MetricsTables == UNION { [1..n -> SummaryRows] : n \in 0..MaxRows }

SummaryInit ==
    /\ config = NoConfig
    /\ np_random = [seed |-> 0, pos |-> 0]
    /\ strategies = <<>>
    /\ mc = IdleEngine
    /\ path = NoPath
    /\ runs \in {<<metrics_df>> : metrics_df \in MetricsTables}
    /\ unit_strategy = <<>>
    /\ unit_call = NoCall

Summarise ==
    /\ unit_call.op = "none"
    /\ unit_call' = [ op |-> "calculate_summary_statistics",
                      stats |-> calculate_summary_statistics(runs[1]) ]
    /\ UNCHANGED <<engine_vars, unit_strategy>>

SummaryNext == Summarise

SpecSummary == SummaryInit /\ [][SummaryNext]_vars

-----------------------------------------------------------------------------
(* run_simulation on portfolios that hold cash: the same engine, started on *)
(* allocations with a cash weight and statistics with and without a cash    *)
(* entry.                                                                   *)

CashAllocations ==
    { [stocks |-> R(1, 2), cash |-> R(1, 2)],
      [stocks |-> Num(1), cash |-> Zero] }

\* statistics without cash, and with a cash entry unlike the fixed profile
CashAssetStatistics ==
    { [stocks |-> [mean_return |-> 0, std_dev |-> 1]],
      [stocks |-> [mean_return |-> 0, std_dev |-> 1],
       cash |-> [mean_return |-> 12, std_dev |-> 1]] }

CashConfigs ==
    [ initial_capital : {Num(64)},
      asset_stats : CashAssetStatistics,
      portfolio_config : [allocation : CashAllocations,
                          rebalance : {[type |-> "time", frequency |-> "monthly"],
                                       [type |-> "threshold", threshold |-> R(1, 8)]}],
      transaction_cost : {Zero},
      n_months : {MaxMonths},
      n_iterations : {MaxIterations},
      withdrawal_amount : {Num(16)},
      inflation_monthly_factor : {R(3, 2)},
      apply_inflation : {FALSE},
      periodic_contribution : {Num(16)},
      contribution_enabled : {FALSE},
      thirteenth_payment_months : {{1}},
      thirteenth_payment_amount : {Num(64)},
      thirteenth_payment_enabled : {FALSE},
      random_seed : {<<>>, <<1>>} ]

CashInit ==
    /\ config \in CashConfigs
    /\ np_random = [seed |-> 0, pos |-> 0]
    /\ strategies = <<>>
    /\ mc = [pc |-> "start"]
    /\ path = NoPath
    /\ runs = <<>>
    /\ unit_strategy = <<>>
    /\ unit_call = NoCall

SpecCash == CashInit /\ [][Next]_vars

-----------------------------------------------------------------------------
(* Properties *)

AllZero(values) == \A asset \in DOMAIN values : values[asset] = Zero

Ruined(p) == p.pc \in {"break", "returned"} /\ p.months_survived < p.n_months

\* C1: the ruin check of month m.  If the value after returns and
\* contribution is >= the month's total withdrawal (equality included), the
\* withdrawal is subtracted and the month goes on to the rebalance check;
\* otherwise the path is ruined: months_survived = m, every asset value and
\* the value are zero, the loop is left, the final value reported is zero,
\* and should_rebalance / rebalance are called neither in month m nor later.
C1_RuinCheck ==
    /\ [][ InPath("withdrawal") =>
            LET total == MonthlyWithdrawal(config, path)
            IN  IF RGe(path.portfolio_value, total)
                THEN /\ path'.pc = "rebalance"
                     /\ path'.portfolio_value = RSub(path.portfolio_value, total)
                     /\ path'.total_withdrawals = RAdd(path.total_withdrawals, total)
                     /\ path'.months_survived = path.months_survived
                ELSE /\ path'.pc = "break"
                     /\ path'.months_survived = path.month
                     /\ path'.portfolio_value = Zero
                     /\ AllZero(path'.new_asset_values)
                     /\ path'.total_withdrawals = path.total_withdrawals ]_vars
    /\ [][ path.pc = "break" =>
            /\ path'.pc = "returned"
            /\ path'.should_rebalance_calls = path.should_rebalance_calls
            /\ path'.rebalance_calls = path.rebalance_calls
            /\ mc'.all_metrics[Len(mc'.all_metrics)].final_value = Zero
            /\ mc'.all_metrics[Len(mc'.all_metrics)].months_survived = path.month ]_vars
    /\ [](Ruined(path) =>
            /\ \A m \in SeqToSet(path.should_rebalance_calls) : m < path.months_survived
            /\ \A m \in SeqToSet(path.rebalance_calls) : m < path.months_survived
            /\ Len(path.history) = path.months_survived
            /\ path.portfolio_value = Zero
            /\ AllZero(path.new_asset_values))

\* a path ruined after a month whose withdrawal took exactly the whole value
C1_Witness ==
    /\ mc.pc = "path"
    /\ path.pc = "break"
    /\ path.month > 0
    /\ \E k \in DOMAIN path.history :
          /\ path.history[k].portfolio_value = Zero
          /\ RGt(path.history[k].withdrawal, Zero)

\* C2: at every month boundary the portfolio value equals the sum of the
\* per-asset values, and once the path is ruined every asset value is zero.
C2_ValueIsSumOfAssets ==
    /\ InPath("month") => REq(path.portfolio_value, Sum(path.asset_values))
    /\ Ruined(path) => AllZero(path.new_asset_values)

\* the largest absolute deviation of a current weight from its target
MaxDeviation(self, current_allocation) ==
    LET ds == {Deviation(self, current_allocation, asset) :
                  asset \in DOMAIN self.target_allocation}
    IN  CHOOSE d \in ds : \A e \in ds : RLe(e, d)

\* C3: ThresholdBasedRebalance.should_rebalance answers True when the
\* largest deviation is exactly the threshold.
C3_ThresholdInclusive ==
    ( /\ unit_call.op = "should_rebalance"
      /\ unit_call.before.class = "ThresholdBasedRebalance"
      /\ MaxDeviation(unit_call.before, unit_call.current_allocation)
            = unit_call.before.threshold )
    => unit_call.result = TRUE

\* C4: the first should_rebalance call on a TimeBasedRebalance object
\* answers True, whatever the frequency, weights, date and value, and
\* records the call's date as the reference date.
C4_FirstCallTrue ==
    ( /\ unit_call.op = "should_rebalance"
      /\ unit_call.asked = 1
      /\ unit_call.before.class = "TimeBasedRebalance" )
    => /\ unit_call.result = TRUE
       /\ unit_strategy[1].last_rebalance_date = <<unit_call.date>>

\* a first should_rebalance call, made after a rebalance() call, at a later
\* date with weights equal to the target
C4_Witness ==
    /\ unit_call.op = "should_rebalance"
    /\ unit_call.asked = 1
    /\ unit_call.calls = 2
    /\ unit_call.before.class = "TimeBasedRebalance"
    /\ unit_call.before.frequency = "annual"
    /\ unit_call.date = 29
    /\ unit_call.current_allocation = unit_call.before.target_allocation
    /\ unit_call.portfolio_value = Zero

\* the day count the claim gives each frequency
ClaimedDays(frequency) ==
    CASE frequency = "monthly" -> 30
      [] frequency = "quarterly" -> 90
      [] frequency = "annual" -> 365

\* C5: a should_rebalance call on a TimeBasedRebalance object that has a
\* reference date answers True iff the days elapsed since that date are >=
\* the frequency's day count (monthly 30, quarterly 90, annual 365); a True
\* answer makes the call's date the reference date, a False answer leaves it.
C5_ElapsedDays ==
    ( /\ unit_call.op = "should_rebalance"
      /\ unit_call.before.class = "TimeBasedRebalance"
      /\ unit_call.before.last_rebalance_date /= <<>>
      /\ unit_call.before.frequency \in {"monthly", "quarterly", "annual"} )
    => LET elapsed == unit_call.date - unit_call.before.last_rebalance_date[1]
       IN  /\ unit_call.result = (elapsed >= ClaimedDays(unit_call.before.frequency))
           /\ unit_strategy[1].last_rebalance_date =
                 IF unit_call.result THEN <<unit_call.date>>
                 ELSE unit_call.before.last_rebalance_date

\* a monthly strategy asked exactly 30 days after its reference date
C5_Witness ==
    /\ unit_call.op = "should_rebalance"
    /\ unit_call.before.class = "TimeBasedRebalance"
    /\ unit_call.before.frequency = "monthly"
    /\ unit_call.before.last_rebalance_date = <<1>>
    /\ unit_call.date = 31
    /\ unit_call.result = TRUE

\* C6: no strategy object is used by two iterations of a batch.
C6_FreshStrategyPerIteration ==
    mc.pc \in {"loop", "path", "done"} =>
        \A i, j \in DOMAIN mc.strategy_used :
            i /= j => mc.strategy_used[i] /= mc.strategy_used[j]

\* C7: the metrics of every iteration are those of its path simulated alone,
\* on the same monthly returns with a newly constructed strategy.
C7_PathsIndependent ==
    ( /\ mc.pc \in {"loop", "done"}
      /\ mc.all_metrics /= <<>>
      /\ path.pc = "returned" )
    => mc.all_metrics[Len(mc.all_metrics)] =
          simulate_portfolio_path(
              config,
              create_rebalance_strategy(config.portfolio_config,
                                        config.transaction_cost).strategy[1],
              path.monthly_returns)

\* C8: two full runs of one configuration whose seed is set (any integer)
\* produce the same metrics table.
C8_Deterministic ==
    ( /\ Len(runs) = 2
      /\ config.random_seed /= <<>> )
    => runs[1] = runs[2]

\* C9: iteration i hands the sampler the seed base_seed + i whenever the
\* base seed is set, and no seed only when it is None.
C9_SeedPerIteration ==
    mc.pc = "path" =>
        mc.seed_passed = IF config.random_seed /= <<>>
                         THEN <<config.random_seed[1] + mc.i>>
                         ELSE <<>>

\* C10: rebalance() returns values and a cost that add up to the portfolio
\* value it was given, sum(new_values) + cost = portfolio_value, for every
\* target allocation (weights >= 0 of sum 1), holdings and value.
C10_RebalanceConserves ==
    unit_call.op = "rebalance" =>
        REq(RAdd(Sum(unit_call.new_values), unit_call.cost), unit_call.portfolio_value)

\* a rebalance that costs something, from holdings that are off target
C10_Witness ==
    /\ unit_call.op = "rebalance"
    /\ RGt(unit_call.cost, Zero)
    /\ unit_call.portfolio_value = Num(4096)
    /\ unit_call.current_values = [stocks |-> Num(3072), bonds |-> Num(1024)]

\* the weights rebalance() derives from the holdings it is given (lines 71-75)
WeightsOf(current_values, portfolio_value) ==
    [asset \in DOMAIN current_values |->
        IF RGt(portfolio_value, Zero)
        THEN RDiv(current_values[asset], portfolio_value)
        ELSE Zero]

\* the turnover over every asset held or targeted
Turnover(target_allocation, current_allocation) ==
    Sum([asset \in DOMAIN target_allocation \cup DOMAIN current_allocation |->
            RAbs(RSub(Get(target_allocation, asset, Zero),
                      Get(current_allocation, asset, Zero)))])

\* C11: the cost of a rebalance is portfolio_value * (turnover / 2) *
\* transaction_cost, the turnover being the sum of |target - current| over
\* every asset held and every asset of the target; the cost is > 0 when the
\* rate and the value are > 0 and some current weight differs from its target.
C11_CostOverAllAssets ==
    unit_call.op = "rebalance" =>
        LET self == unit_call.before
            current_allocation == WeightsOf(unit_call.current_values,
                                            unit_call.portfolio_value)
            turnover == Turnover(self.target_allocation, current_allocation)
        IN  /\ unit_call.cost =
                  RMul(RMul(unit_call.portfolio_value, RDiv(turnover, Num(2))),
                       self.transaction_cost)
            /\ ( /\ RGt(self.transaction_cost, Zero)
                 /\ RGt(unit_call.portfolio_value, Zero)
                 /\ RGt(turnover, Zero) )
               => RGt(unit_call.cost, Zero)

C20_ThresholdStrictCases ==
    ( /\ unit_call.op = "should_rebalance"
      /\ unit_call.before.class = "ThresholdBasedRebalance" )
    => LET self == unit_call.before
           assets == DOMAIN self.target_allocation
           deviation(asset) == Deviation(self, unit_call.current_allocation, asset)
       IN  /\ (\A asset \in assets : RLt(deviation(asset), self.threshold))
                 => unit_call.result = FALSE
           /\ (\E asset \in assets : RGt(deviation(asset), self.threshold))
                 => unit_call.result = TRUE
           /\ unit_strategy[1] = self

\* weights 1/8 off a 50/50 target, asked of a strategy of threshold 1/4
\* that has already answered one call
C20_Witness ==
    /\ unit_call.op = "should_rebalance"
    /\ unit_call.asked = 2
    /\ unit_call.before.class = "ThresholdBasedRebalance"
    /\ unit_call.before.threshold = R(1, 4)
    /\ unit_call.before.target_allocation = [stocks |-> R(1, 2), bonds |-> R(1, 2)]
    /\ unit_call.current_allocation = [stocks |-> R(5, 8), bonds |-> R(3, 8)]
    /\ unit_call.result = FALSE

\* C13: the factory makes a TimeBasedRebalance for the type "time" and a
\* ThresholdBasedRebalance for "threshold"; for any other type it raises
\* when the strategy is constructed, and then no object exists, no returns
\* have been drawn and no path has been entered.
C13_FactoryByTag ==
    LET type == config.portfolio_config.rebalance.type
    IN  /\ mc.pc \in {"loop", "path", "done"} =>
              /\ type \in {"time", "threshold"}
              /\ type = "time" =>
                    strategies[mc.rebalance_strategy].class = "TimeBasedRebalance"
              /\ type = "threshold" =>
                    strategies[mc.rebalance_strategy].class = "ThresholdBasedRebalance"
        /\ type \notin {"time", "threshold"} =>
              /\ mc.pc \in {"start", "raised"}
              /\ strategies = <<>>
              /\ path = NoPath
              /\ runs = <<>>
              /\ np_random = [seed |-> 0, pos |-> 0]
        /\ mc.pc = "raised" => mc.error = "ValueError"

\* the run of a configuration of type "momentum", stopped by the error
C13_Witness ==
    /\ mc.pc = "raised"
    /\ mc.error = "ValueError"
    /\ config.portfolio_config.rebalance.type = "momentum"
    /\ path = NoPath

\* the metrics collected so far by the batch in progress
CollectedMetrics ==
    IF mc.pc \in {"loop", "path", "done"} THEN SeqToSet(mc.all_metrics) ELSE {}

\* C16: in every path's metrics months_survived is at most the horizon,
\* survived_full_period is true exactly when months_survived equals the
\* horizon, which is exactly when the path did not end in ruin, and net_flow
\* is total_contributions - total_withdrawals.
C16_MetricsConsistent ==
    /\ [](\A m \in CollectedMetrics :
            /\ m.months_survived \in 0..config.n_months
            /\ m.survived_full_period = (m.months_survived = config.n_months)
            /\ m.net_flow = RSub(m.total_contributions, m.total_withdrawals))
    /\ [][ (mc.pc = "path" /\ LoopOver(path)) =>
             LET m == mc'.all_metrics[Len(mc'.all_metrics)]
             IN  /\ m.survived_full_period = (path.pc /= "break")
                 /\ (m.months_survived = path.n_months) = (path.pc /= "break") ]_vars

\* the metrics of a path ruined in its last month, after paying withdrawals
C16_Witness ==
    /\ mc.pc = "loop"
    /\ path.pc = "returned"
    /\ path.month = path.n_months - 1
    /\ mc.all_metrics /= <<>>
    /\ LET m == mc.all_metrics[Len(mc.all_metrics)]
       IN  /\ m.survived_full_period = FALSE
           /\ m.months_survived = path.n_months - 1
           /\ RLt(m.net_flow, Zero)

\* a number proper: neither nan nor an infinity
IsFinite(a) == a[2] /= 0

\* C17: a portfolio value that is zero or negative at the contribution or
\* the withdrawal proration ends the path in ruin, and no proration divides
\* by a zero base: a month goes past its withdrawal only from a value > 0,
\* the contribution is spread only over a pre-contribution total other
\* than zero, and every asset value stays a number.
C17_ZeroValueIsRuin ==
    /\ InPath("rebalance") =>
          RGt(RAdd(path.portfolio_value, path.monthly_withdrawal), Zero)
    /\ ( /\ InPath("withdrawal")
         /\ config.contribution_enabled
         /\ RGt(path.portfolio_value, Zero) )
       => RNe(RSub(path.portfolio_value, path.contribution_this_month), Zero)
    /\ (mc.pc = "path" /\ path.pc \notin {"month", "returned"}) =>
          \A asset \in DOMAIN path.new_asset_values :
              IsFinite(path.new_asset_values[asset])

\* C18: a run whose allocation names an asset that has no statistics and is
\* not cash stops with an error before any path of the batch is entered.
C18_MissingAssetRejected ==
    ( \E asset \in DOMAIN config.portfolio_config.allocation :
          asset \notin DOMAIN config.asset_stats /\ asset /= "cash" )
    => /\ mc.pc \notin {"path", "done"}
       /\ path = NoPath
       /\ runs = <<>>

\* C19: monte_carlo_simulation returns one row of metrics per iteration, in
\* the order of the iterations, for every n_iterations >= 0: the table holds
\* i rows when iteration i starts, each path's metrics are appended as the
\* last row when it returns, and the table returned when the loop ends has
\* n_iterations rows; with n_iterations = 0 it is returned empty.
C19_OneRowPerIteration ==
    /\ [](mc.pc \in {"loop", "path", "done"} =>
            /\ Len(mc.all_metrics) = mc.i
            /\ mc.i <= config.n_iterations)
    /\ [](\A r \in DOMAIN runs : Len(runs[r]) = config.n_iterations)
    /\ [][ (mc.pc = "path" /\ mc'.pc = "loop") =>
             mc'.all_metrics = Append(mc.all_metrics, Metrics(config, path)) ]_vars
    /\ [][ (mc.pc = "loop" /\ mc'.pc \in {"start", "done"}) =>
             /\ mc.i = config.n_iterations
             /\ runs' = Append(runs, mc.all_metrics) ]_vars

\* a batch of no iterations has returned its empty table
C19_Witness ==
    /\ config.n_iterations = 0
    /\ Len(runs) >= 1
    /\ runs[1] = <<>>
    /\ mc.pc \in {"start", "done"}

\* floor of a rational >= 0
Floor(a) == a[1] \div a[2]

Min(a, b) == IF a <= b THEN a ELSE b

\* the metrics of the path that has returned
ReturnedMetrics == mc.all_metrics[Len(mc.all_metrics)]

\* zero returns, inflation adjustment off, no contributions, no extra
\* withdrawals, transaction cost 0
NoFlowsButWithdrawal ==
    /\ \A asset \in DOMAIN path.monthly_returns :
          \A m \in DOMAIN path.monthly_returns[asset] :
              path.monthly_returns[asset][m] = 0
    /\ ~config.apply_inflation
    /\ ~config.contribution_enabled
    /\ ~config.thirteenth_payment_enabled
    /\ config.transaction_cost = Zero

\* C14: with zero returns and no flow but a monthly withdrawal W > 0, a path
\* of initial capital C and horizon H returns months_survived =
\* min(H, floor(C / W)); with C = 100000, W = 2000, H = 60 on a 60/40
\* allocation it returns 50, survived_full_period false and final_value 0.
C14_RuinArithmetic ==
    ( /\ path.pc = "returned"
      /\ NoFlowsButWithdrawal
      /\ RGt(config.withdrawal_amount, Zero) )
    => /\ ReturnedMetrics.months_survived =
             Min(path.n_months,
                 Floor(RDiv(config.initial_capital, config.withdrawal_amount)))
       /\ ( /\ config.initial_capital = Num(100000)
            /\ config.withdrawal_amount = Num(2000)
            /\ path.n_months = 60 )
          => /\ ReturnedMetrics.months_survived = 50
             /\ ReturnedMetrics.survived_full_period = FALSE
             /\ ReturnedMetrics.final_value = Zero

\* the path of C = 100000, W = 2000, H = 60 has returned after 50 months
C14_Witness ==
    /\ path.pc = "returned"
    /\ NoFlowsButWithdrawal
    /\ config.initial_capital = Num(100000)
    /\ config.withdrawal_amount = Num(2000)
    /\ config.portfolio_config.allocation = [stocks |-> R(3, 5), bonds |-> R(2, 5)]
    /\ path.n_months = 60
    /\ Len(path.history) = 50
    /\ path.history[50].portfolio_value = Zero

\* C15: a path whose loop runs through every month of the horizon without
\* ruin returns months_survived = horizon and survived_full_period true;
\* with zero returns and no withdrawal, contribution or cost its
\* final_value is the initial capital.
C15_NaturalCompletion ==
    ( /\ path.pc = "returned"
      /\ path.month = config.n_months )
    => /\ ReturnedMetrics.months_survived = config.n_months
       /\ ReturnedMetrics.survived_full_period = TRUE
       /\ ( /\ NoFlowsButWithdrawal
            /\ config.withdrawal_amount = Zero )
          => ReturnedMetrics.final_value = config.initial_capital

\* twelve months without any flow, the capital intact at the end
C15_Witness ==
    /\ path.pc = "returned"
    /\ path.month = 12
    /\ config.n_months = 12
    /\ NoFlowsButWithdrawal
    /\ config.withdrawal_amount = Zero
    /\ Len(path.history) = 12
    /\ ReturnedMetrics.final_value = config.initial_capital

\* C21: on a metrics table of N >= 1 rows of which K have
\* survived_full_period true, calculate_summary_statistics returns
\* survival_rate = 100 * K / N.
C21_SurvivalRate ==
    ( /\ unit_call.op = "calculate_summary_statistics"
      /\ Len(runs[1]) >= 1 )
    => LET N == Len(runs[1])
           K == Cardinality({k \in 1..N : runs[1][k].survived_full_period})
       IN  unit_call.stats.survival_rate = R(100 * K, N)

\* a table of three rows, one of them a survivor, has been summarised
C21_Witness ==
    /\ unit_call.op = "calculate_summary_statistics"
    /\ Len(runs[1]) = 3
    /\ Cardinality({k \in 1..3 : runs[1][k].survived_full_period}) = 1
    /\ unit_call.stats.survival_rate = R(100, 3)

\* the fixed annual profile of cash, as the sampler reads it
FixedCashProfile == [mean_return |-> 0, std_dev |-> 0]

\* the cash column of a table of returns is drawn from the fixed profile
CashColumnFixed(monthly_returns) ==
    "cash" \in DOMAIN monthly_returns =>
        \A m \in DOMAIN monthly_returns["cash"] : monthly_returns["cash"][m] = 0

\* the batch in progress works on statistics with the fixed cash profile
\* added, and its paths have a cash column
CashSupplied ==
    /\ mc.pc \in {"loop", "path", "done"} =>
          /\ "cash" \in DOMAIN mc.asset_stats
          /\ mc.asset_stats["cash"] = FixedCashProfile
    /\ mc.pc = "path" => "cash" \in DOMAIN path.monthly_returns

C23_StepOrder ==
    /\ [](mc.pc = "path" /\ path.pc /= "returned"
            => path.current_date = 30 * path.month)
    /\ [][ (InPath("month") /\ path'.pc /= "returned") =>
             /\ path'.pc = "contribution"
             /\ path'.withdrawal =
                   IF config.apply_inflation /\ path.month > 0
                   THEN RMul(path.withdrawal, config.inflation_monthly_factor)
                   ELSE path.withdrawal
             /\ \A asset \in DOMAIN path.asset_values \cap DOMAIN path.monthly_returns :
                   path'.new_asset_values[asset] =
                       RMul(path.asset_values[asset],
                            Exp(path.monthly_returns[asset][path.month + 1]))
             /\ path'.portfolio_value = Sum(path'.new_asset_values) ]_vars
    /\ [][ InPath("contribution") =>
             /\ path'.pc = "withdrawal"
             /\ path'.withdrawal = path.withdrawal
             /\ ( /\ config.contribution_enabled
                  /\ RNe(config.periodic_contribution, Zero)
                  /\ RGt(path'.portfolio_value, Zero) )
                => \A asset \in DOMAIN path.new_asset_values :
                      path'.new_asset_values[asset] =
                          RMul(RDiv(path.new_asset_values[asset], path.portfolio_value),
                               path'.portfolio_value) ]_vars
    /\ [][ InPath("withdrawal") =>
             /\ path'.pc \in {"rebalance", "break"}
             /\ path'.monthly_withdrawal = MonthlyWithdrawal(config, path)
             /\ path'.pc = "rebalance" =>
                   \A asset \in DOMAIN path.new_asset_values :
                      path'.new_asset_values[asset] =
                          RMul(path.new_asset_values[asset],
                               RSub(Num(1), RDiv(path'.monthly_withdrawal,
                                                 path.portfolio_value))) ]_vars
    /\ [][ InPath("rebalance") =>
             LET strategy == strategies[mc.strategy_used[Len(mc.strategy_used)]]
                 asked == should_rebalance(
                              strategy,
                              WeightsOf(path.new_asset_values, path.portfolio_value),
                              path.current_date, path.portfolio_value)
             IN  /\ path'.pc = "record"
                 /\ path'.current_date = path.current_date
                 /\ (path'.rebalance_calls /= path.rebalance_calls) = asked.result ]_vars
    /\ [][ InPath("record") =>
             /\ path'.pc = "month"
             /\ path'.asset_values = path.new_asset_values
             /\ path'.current_date = path.current_date + 30
             /\ path'.month = path.month + 1 ]_vars

\* the second month of a path under a threshold strategy, with inflation and
\* contributions on: the withdrawal was paid and the weights, moved by the
\* month's returns, have just caused a rebalance
C23_Witness ==
    /\ InPath("record")
    /\ path.month = 1
    /\ config.apply_inflation
    /\ config.contribution_enabled
    /\ config.portfolio_config.rebalance.type = "threshold"
    /\ RGt(path.monthly_withdrawal, Zero)
    /\ path.rebalance_calls = <<1>>

\* C24: with contributions enabled, the contribution step adds the signed
\* amount to the portfolio value and to total_contributions and gives each
\* asset its pre-contribution share of the new total; when the
\* pre-contribution total is 0 each asset gets its target weight of the new
\* total.
C24_ContributionProration ==
    [][ ( /\ InPath("contribution")
          /\ config.contribution_enabled
          /\ RNe(config.periodic_contribution, Zero) )
        => LET total == RAdd(path.portfolio_value, config.periodic_contribution)
               allocation == config.portfolio_config.allocation
           IN  /\ path'.portfolio_value = total
               /\ path'.total_contributions =
                     RAdd(path.total_contributions, config.periodic_contribution)
               /\ \A asset \in DOMAIN path.new_asset_values :
                     path'.new_asset_values[asset] =
                        IF REq(path.portfolio_value, Zero)
                        THEN RMul(total, allocation[asset])
                        ELSE RMul(RDiv(path.new_asset_values[asset],
                                       path.portfolio_value), total) ]_vars

\* the factor by which the base withdrawal of month m is scaled under the
\* claims: the monthly factor to the power m with inflation adjustment on
CumulativeInflation(m) ==
    IF config.apply_inflation
    THEN RPow(config.inflation_monthly_factor, m)
    ELSE Num(1)

\* C25: the total withdrawal of month m is the adjusted base withdrawal
\* plus, exactly when extra withdrawals are enabled and m + 1 is a trigger
\* month, the extra amount scaled by the factor by which the base withdrawal
\* has been scaled at month m.
C25_ExtraWithdrawalScaling ==
    (mc.pc = "path" /\ path.pc \in {"rebalance", "break"}) =>
        path.monthly_withdrawal =
            IF /\ config.thirteenth_payment_enabled
               /\ (path.month + 1) \in config.thirteenth_payment_months
            THEN RAdd(path.withdrawal,
                      RMul(config.thirteenth_payment_amount,
                           CumulativeInflation(path.month)))
            ELSE path.withdrawal

\* C26: with inflation adjustment on, the base withdrawal is the configured
\* amount in month 0 and is multiplied by the monthly factor once at the
\* start of each later month, withdrawal_amount * factor^m in month m;
\* with the adjustment off it is the configured amount in every month.
C26_BaseWithdrawalInflation ==
    /\ (mc.pc = "path" /\ path.pc \in {"contribution", "withdrawal",
                                         "rebalance", "record", "break"})
          => path.withdrawal =
                RMul(config.withdrawal_amount, CumulativeInflation(path.month))
    /\ (mc.pc = "path" \/ path.pc = "returned") =>
          \A k \in DOMAIN path.history :
              path.history[k].base_withdrawal =
                  RMul(config.withdrawal_amount, CumulativeInflation(k - 1))

\* the fourth month of a path with inflation adjustment: the base
\* withdrawal 16 has become 54
C26_Witness ==
    /\ InPath("record")
    /\ path.month = 3
    /\ config.apply_inflation
    /\ config.withdrawal_amount = Num(16)
    /\ path.withdrawal = Num(54)
    /\ path.history[1].base_withdrawal = Num(16)

\* the loop has run through every month of the horizon
CompletedHorizon ==
    /\ path.month = path.n_months
    /\ path.months_survived = path.n_months
    /\ Len(path.history) = path.n_months

\* the loop was left at the first month whose withdrawal was not paid: the
\* months before it are the months processed, each with its snapshot, and
\* what was left of the portfolio is written off
RuinedAt ==
    /\ path.month < path.n_months
    /\ path.months_survived = path.month
    /\ Len(path.history) = path.month
    /\ path.portfolio_value = Zero

\* C27: every path comes to an end and stays there, after at most n_months
\* months, either with every month of the horizon processed or ruined at the
\* month whose withdrawal could not be paid, the months processed being the
\* months before it; never both.
C27_Terminates ==
    /\ <>[]( /\ path.pc = "returned"
             /\ path.month <= path.n_months
             /\ CompletedHorizon \/ RuinedAt
             /\ ~(CompletedHorizon /\ RuinedAt) )
    \* the loop is left early exactly at a withdrawal that cannot be paid
    /\ [][ InPath("withdrawal") =>
             ((path'.pc = "break") <=>
                 ~RGe(path.portfolio_value, MonthlyWithdrawal(config, path))) ]_vars
    \* and nothing but the return follows
    /\ [][ path.pc = "break" =>
             /\ path'.pc = "returned"
             /\ path'.month = path.month
             /\ path'.history = path.history ]_vars

\* a path of 60 months that was ruined in its seventh month has returned
C27_Witness ==
    /\ path.pc = "returned"
    /\ path.n_months = 60
    /\ path.month = 6
    /\ path.months_survived = 6
    /\ config.initial_capital = Num(100)
    /\ PlainCall(config)

\* C28: the history holds one snapshot for each month whose withdrawal was
\* paid, numbered 1, 2, ... in order: while the loop runs there are as many
\* snapshots as months gone through, the running total of withdrawals grows
\* from one snapshot to the next by the withdrawal that snapshot records, the
\* month of the ruin adds none, and at the return there are exactly
\* months_survived of them.
C28_HistorySnapshots ==
    /\ Len(path.history) = path.month
    /\ \A k \in 1..Len(path.history) :
          /\ path.history[k].month = k
          /\ path.history[k].total_withdrawals =
                RAdd(IF k = 1 THEN Zero ELSE path.history[k - 1].total_withdrawals,
                     path.history[k].withdrawal)
    /\ path.pc \in {"break", "returned"} =>
          /\ Len(path.history) = path.months_survived
          /\ \A k \in 1..path.months_survived : path.history[k].month = k

\* a call over 12 months that paid six withdrawals of 16 from 100 and was
\* ruined at the seventh has returned with six snapshots
C28_Witness ==
    /\ path.pc = "returned"
    /\ path.n_months = 12
    /\ config.withdrawal_amount = Num(16)
    /\ PlainCall(config)
    /\ Len(path.history) = 6
    /\ path.history[6].month = 6
    /\ path.history[6].total_withdrawals = Num(96)

\* the number of 30-day months between two rebalances of a frequency
MonthsBetween(frequency) ==
    CASE frequency = "monthly" -> 1
      [] frequency = "quarterly" -> 3
      [] OTHER -> 13

\* the months of the call that have gone through the rebalance check
MonthsChecked ==
    IF path.pc = "record" THEN 0..path.month
    ELSE IF path.pc \in {"break", "returned"} THEN 0..(path.months_survived - 1)
    ELSE 0..(path.month - 1)

\* C29: in a call with a TimeBasedRebalance made for it, the months in which
\* the portfolio is rebalanced are, in increasing order, exactly the months
\* gone through whose index is a multiple of 1 (monthly), 3 (quarterly) or
\* 13 (annual and any other frequency name); month 12 is not one of them.
C29_TimeBasedMonths ==
    strategies[1].class = "TimeBasedRebalance" =>
        LET every == MonthsBetween(config.portfolio_config.rebalance.frequency)
            due == {m \in MonthsChecked : m % every = 0}
        IN  /\ SeqToSet(path.should_rebalance_calls) = MonthsChecked
            /\ SeqToSet(path.rebalance_calls) = due
            /\ Len(path.rebalance_calls) = Cardinality(due)
            /\ \A k \in 1..Len(path.rebalance_calls) :
                  path.rebalance_calls[k] = (k - 1) * every

\* a call over 60 months with the annual frequency has returned after
\* rebalancing in months 0, 13, 26, 39 and 52
C29_Witness ==
    /\ path.pc = "returned"
    /\ config.portfolio_config.rebalance = [type |-> "time", frequency |-> "annual"]
    /\ path.months_survived = 60
    /\ path.rebalance_calls = <<0, 13, 26, 39, 52>>

\* the value that the flows of a call leave of its initial capital
Balance(total_contributions, total_withdrawals, total_rebalance_costs) ==
    RSub(RSub(RAdd(config.initial_capital, total_contributions), total_withdrawals),
         total_rebalance_costs)

\* the totals of the last snapshot, zero before the first
LastSnapshotTotal(field) ==
    IF path.history = <<>> THEN Zero ELSE path.history[Len(path.history)][field]

====
